---- MODULE Spec2Model ----
(***************************************************************************)
(* Model of app.py: a Streamlit page over one BigQuery table.  One script  *)
(* run (a "render") is one action; st.session_state, the widget state the  *)
(* script reads and the table are the state.  The model covers sessions    *)
(* whose client and schema are available: otherwise lines 181-197 stop the *)
(* script before any handler runs.                                         *)
(*                                                                         *)
(* Strings are tuples of one-character strings, so that lower(), strip()   *)
(* and float() are computed character by character.                        *)
(* An optional value (a key of st.session_state that can be absent, a      *)
(* Python None result) is None == <<>> or Some(x) == <<x>>.                *)
(* A stored or bound value is a tagged record: NullV, StrV, IntV, FloatV,  *)
(* BoolV.                                                                  *)
(***************************************************************************)
EXTENDS Integers, Sequences, FiniteSets, TLC

\* ------------------------------------------------------------------ bounds
\* Largest number of rows the table holds (inserts are disabled beyond it).
MaxRows == 3
\* Longest generated raw string given to the coercion of update_row.
MaxRawLen == 2
\* Number of user sessions adding rows concurrently.
NumSessions == 2

\* --------------------------------------------------------------- constants
\* LIMIT of the search query.
Limit == 1000
\* Largest decimal exponent of a finite float64 (1e308 is finite, 1e309 is inf).
FloatMaxExp10 == 308

\* ----------------------------------------------------------------- values
None == <<>>
Some(x) == <<x>>

NullV == [k |-> "null"]
StrV(s) == [k |-> "str", s |-> s]
IntV(n) == [k |-> "int", n |-> n]
BoolV(b) == [k |-> "bool", b |-> b]
\* A float: kind "nan", "inf" or "fin"; a finite one is (-1)^neg * num / den.
FloatV(kind, neg, num, den) == [k |-> "float", kind |-> kind, neg |-> neg, num |-> num, den |-> den]

\* ---------------------------------------------------------------- strings
Upper == <<"A", "B", "C", "D", "E", "F", "G", "H", "I", "J", "K", "L", "M", "N", "O", "P", "Q", "R", "S", "T", "U", "V", "W", "X", "Y", "Z">>

Lower == <<"a", "b", "c", "d", "e", "f", "g", "h", "i", "j", "k", "l", "m", "n", "o", "p", "q", "r", "s", "t", "u", "v", "w", "x", "y", "z">>

\* str.lower() on one character.
LowerChar(c) == IF \E i \in 1..Len(Upper) : Upper[i] = c THEN Lower[CHOOSE i \in 1..Len(Upper) : Upper[i] = c] ELSE c

\* str.lower()
lower(s) == [i \in 1..Len(s) |-> LowerChar(s[i])]

IsSpace(c) == c = " "

RECURSIVE lstrip(_)
lstrip(s) == IF s # <<>> /\ IsSpace(Head(s)) THEN lstrip(Tail(s)) ELSE s

RECURSIVE rstrip(_)
rstrip(s) == IF s # <<>> /\ IsSpace(s[Len(s)]) THEN rstrip(SubSeq(s, 1, Len(s) - 1)) ELSE s

\* str.strip()
strip(s) == rstrip(lstrip(s))

\* hay LIKE '%needle%' (the alphabet holds neither % nor _).
Contains(hay, needle) == \E i \in 0..(Len(hay) - Len(needle)) : SubSeq(hay, i + 1, i + Len(needle)) = needle

\* ----------------------------------------------------------------- schema
\* The columns of the table (lines 32-38): the id and one STRING column.
schema == << [name |-> "id", field_type |-> "INT64"], [name |-> "name", field_type |-> "STRING"] >>

\* line 188
all_column_names == [i \in 1..Len(schema) |-> schema[i].name]

\* line 189
display_column_names == SelectSeq(all_column_names, LAMBDA col : col # "id")

\* line 192
unique_id_column == "id"

Range(s) == {s[i] : i \in 1..Len(s)}

DisplayCols == Range(display_column_names)

\* ------------------------------------------------------------ float(), int()
Digits == <<"0", "1", "2", "3", "4", "5", "6", "7", "8", "9">>

IsDigit(c) == \E i \in 1..Len(Digits) : Digits[i] = c

DigitVal(c) == (CHOOSE i \in 1..Len(Digits) : Digits[i] = c) - 1

AllDigits(s) == \A i \in 1..Len(s) : IsDigit(s[i])

RECURSIVE DecVal(_)
DecVal(s) == IF s = <<>> THEN 0 ELSE 10 * DecVal(SubSeq(s, 1, Len(s) - 1)) + DigitVal(s[Len(s)])

RECURSIVE Pow10(_)
Pow10(n) == IF n = 0 THEN 1 ELSE 10 * Pow10(n - 1)

RECURSIVE StripZeros(_)
StripZeros(s) == IF s # <<>> /\ Head(s) = "0" THEN StripZeros(Tail(s)) ELSE s

\* Index of the first occurrence of c in s, 0 when there is none.
IndexOf(s, c) == IF \E i \in 1..Len(s) : s[i] = c THEN CHOOSE i \in 1..Len(s) : s[i] = c /\ \A j \in 1..(i - 1) : s[j] # c ELSE 0

HasSign(s) == s # <<>> /\ Head(s) \in {"+", "-"}

Unsigned(s) == IF HasSign(s) THEN Tail(s) ELSE s

\* The value of the significant digits sig with nfrac of them after the point,
\* times 10^e.  adj is the decimal exponent of the leading digit: beyond the
\* float64 range the value is an infinity or zero.
DecimalValue(neg, sig, nfrac, e) ==
    IF sig = <<>> THEN Some(FloatV("fin", neg, 0, 1))
    ELSE IF Len(sig) - nfrac + e - 1 > FloatMaxExp10 THEN Some(FloatV("inf", neg, 0, 1))
    ELSE IF Len(sig) - nfrac + e - 1 < 0 - FloatMaxExp10 - 16 THEN Some(FloatV("fin", neg, 0, 1))
    ELSE IF e >= nfrac THEN Some(FloatV("fin", neg, DecVal(sig) * Pow10(e - nfrac), 1))
    ELSE Some(FloatV("fin", neg, DecVal(sig), Pow10(nfrac - e)))

\* The exponent "[sign]d+" as an integer (digits beyond the fourth cannot
\* change the outcome).
ExpDigits(d) == IF Len(d) > 4 THEN 9999 ELSE DecVal(d)

ExpValue(expS) == IF HasSign(expS) /\ Head(expS) = "-" THEN 0 - ExpDigits(StripZeros(Tail(expS))) ELSE ExpDigits(StripZeros(Unsigned(expS)))

ExpOk(expS) == Unsigned(expS) # <<>> /\ AllDigits(Unsigned(expS))

\* Mantissa "d*[.d*]" with at least one digit: ip before the point, fp after.
DecimalParts(neg, ip, fp, hasExp, expS) ==
    IF ~(AllDigits(ip) /\ AllDigits(fp) /\ Len(ip) + Len(fp) >= 1) THEN None
    ELSE IF hasExp /\ ~ExpOk(expS) THEN None
    ELSE DecimalValue(neg, StripZeros(ip \o fp), Len(fp), IF hasExp THEN ExpValue(expS) ELSE 0)

SplitAtDot(neg, mant, dot, hasExp, expS) == IF dot = 0 THEN DecimalParts(neg, mant, <<>>, hasExp, expS) ELSE DecimalParts(neg, SubSeq(mant, 1, dot - 1), SubSeq(mant, dot + 1, Len(mant)), hasExp, expS)

SplitAtExp(neg, s, ePos) == IF ePos = 0 THEN SplitAtDot(neg, s, IndexOf(s, "."), FALSE, <<>>) ELSE SplitAtDot(neg, SubSeq(s, 1, ePos - 1), IndexOf(SubSeq(s, 1, ePos - 1), "."), TRUE, SubSeq(s, ePos + 1, Len(s)))

\* A decimal literal without sign, lower-cased: mantissa and optional exponent
\* "e[sign]d+".  None when s is no literal.
ParseDecimal(neg, s) == SplitAtExp(neg, s, IndexOf(s, "e"))

FloatOf(neg, u) ==
    IF u \in {<<"i", "n", "f">>, <<"i", "n", "f", "i", "n", "i", "t", "y">>} THEN Some(FloatV("inf", neg, 0, 1))
    ELSE IF u = <<"n", "a", "n">> THEN Some(FloatV("nan", FALSE, 0, 1))
    ELSE ParseDecimal(neg, u)

FloatOfStripped(t) == FloatOf(HasSign(t) /\ Head(t) = "-", Unsigned(t))

\* Python float(str): None stands for ValueError.  (Digit-group underscores
\* are outside the alphabet; rounding to the nearest double is not modelled.)
float(raw) == FloatOfStripped(lower(strip(raw)))

\* Python int(float): truncation toward zero; "ValueError" for nan,
\* "OverflowError" for an infinity.
int(f) ==
    IF f.kind = "nan" THEN [exc |-> "ValueError", v |-> NullV]
    ELSE IF f.kind = "inf" THEN [exc |-> "OverflowError", v |-> NullV]
    ELSE [exc |-> "", v |-> IntV((IF f.neg THEN -1 ELSE 1) * (f.num \div f.den))]

\* ------------------------------------------------------- update_row coercion
TrueStrings == { <<"t", "r", "u", "e">>, <<"1">>, <<"t">>, <<"y">>, <<"y", "e", "s">> }

\* Python str(value): a None prints as "None".
str(value) == IF value = NullV THEN <<"N", "o", "n", "e">> ELSE value.s

\* Lines 139-142 after float() succeeded: the except clause catches
\* ValueError and TypeError, nothing else.
IntOrNull(r) == IF r.exc = "ValueError" THEN [exc |-> "", v |-> NullV] ELSE r

\* Lines 138-147 given f = float(value), None when float() raised ValueError.
NumberOrNull(field_type, f) ==
    IF f = None THEN [exc |-> "", v |-> NullV]
    ELSE IF field_type = "INT64" THEN IntOrNull(int(f[1]))
    ELSE [exc |-> "", v |-> f[1]]

\* Lines 135-151: the value bound for one key.  exc names the exception that
\* leaves the function ("" when none does).
converted_value(field_type, value) ==
    IF value = NullV \/ strip(str(value)) = <<>> THEN [exc |-> "", v |-> NullV]
    ELSE IF field_type \in {"INT64", "FLOAT64"} THEN NumberOrNull(field_type, float(str(value)))
    ELSE IF field_type = "BOOL" THEN [exc |-> "", v |-> BoolV(lower(str(value)) \in TrueStrings)]
    ELSE [exc |-> "", v |-> StrV(str(value))]

\* ---------------------------------------------------------------- warehouse
\* A row is a function from column names to values; the table is the
\* sequence of its rows in insertion order.

RECURSIVE MaxIdFrom(_, _)
MaxIdFrom(tbl, acc) == IF tbl = <<>> THEN acc ELSE MaxIdFrom(Tail(tbl), IF acc = None \/ Head(tbl)["id"].n > acc[1] THEN Some(Head(tbl)["id"].n) ELSE acc)

\* MAX(id): None (SQL NULL) over an empty table.
MAX_id(tbl) == MaxIdFrom(tbl, None)

\* get_next_id without the "+ 1" of line 58.
get_next_id_NoIncrement(tbl, q_ok) ==
    IF ~q_ok THEN None
    ELSE IF MAX_id(tbl) = None THEN Some(0) ELSE Some(MAX_id(tbl)[1])

\* get_next_id defaulting to 1 when its query fails, instead of returning None.
get_next_id_DefaultsToOne(tbl, q_ok) ==
    IF ~q_ok THEN Some(1)
    ELSE IF MAX_id(tbl) = None THEN Some(1) ELSE Some(MAX_id(tbl)[1] + 1)

\* Lines 45-62.  q_ok: the query runs without error.
get_next_id(tbl, q_ok) ==
    IF ~q_ok THEN None
    ELSE LET max_id == IF MAX_id(tbl) = None THEN 0 ELSE MAX_id(tbl)[1]
         IN  Some(max_id + 1)

\* LOWER(CAST(column AS STRING)): NULL stays NULL.
LowerCast(v) == IF v = NullV THEN None ELSE Some(lower(v.s))

\* The WHERE clause of lines 75-85 on one row.
Matches(row, filters) == \A column \in DOMAIN filters : filters[column] # <<>> => (LowerCast(row[column]) # None /\ Contains(LowerCast(row[column])[1], lower(filters[column])))

\* Index of the row with the largest id (the first of them on a tie).
ArgMaxId(rows) == CHOOSE i \in 1..Len(rows) : (\A j \in 1..Len(rows) : rows[j]["id"].n <= rows[i]["id"].n) /\ (\A j \in 1..(i - 1) : rows[j]["id"].n < rows[i]["id"].n)

Remove(rows, i) == SubSeq(rows, 1, i - 1) \o SubSeq(rows, i + 1, Len(rows))

\* ORDER BY id DESC
RECURSIVE OrderByIdDesc(_)
OrderByIdDesc(rows) == IF rows = <<>> THEN <<>> ELSE <<rows[ArgMaxId(rows)]>> \o OrderByIdDesc(Remove(rows, ArgMaxId(rows)))

\* Lines 65-96: the rows of the result, an empty frame when the query fails.
get_data(tbl, filters, q_ok) ==
    IF ~q_ok THEN <<>>
    ELSE LET hits == OrderByIdDesc(SelectSeq(tbl, LAMBDA row : Matches(row, filters)))
         IN  SubSeq(hits, 1, IF Len(hits) < Limit THEN Len(hits) ELSE Limit)

\* Lines 99-110.  outcome: "ok", "errors" (insert_rows_json reports errors) or
\* "exception".
insert_row(tbl, row_data, outcome) ==
    IF outcome = "ok" THEN [success |-> TRUE, message |-> "Row inserted successfully!", table |-> Append(tbl, row_data)]
    ELSE IF outcome = "errors" THEN [success |-> FALSE, message |-> "Failed to insert row", table |-> tbl]
    ELSE [success |-> FALSE, message |-> "An error occurred while inserting data", table |-> tbl]

\* Lines 132-134: the declared type of a key, STRING when the schema lacks it.
field_type_of(sch, key) == IF \E i \in 1..Len(sch) : sch[i].name = key THEN sch[CHOOSE i \in 1..Len(sch) : sch[i].name = key].field_type ELSE "STRING"

\* UPDATE ... SET key = @key, ... WHERE unique_id_column = @..._val
ApplyUpdate(tbl, params, id_column, id_value) == [i \in 1..Len(tbl) |-> IF tbl[i][id_column] = id_value THEN [c \in DOMAIN tbl[i] |-> IF c \in DOMAIN params THEN params[c] ELSE tbl[i][c]] ELSE tbl[i]]

\* Lines 154-165 once every value is converted: conv maps each key to its
\* converted value or the exception it raised.
RunUpdate(tbl, conv, id_column, id_value, q_ok) ==
    IF \E key \in DOMAIN conv : conv[key].exc # "" THEN [exc |-> conv[CHOOSE key \in DOMAIN conv : conv[key].exc # ""].exc, success |-> FALSE, message |-> "", table |-> tbl, set_keys |-> DOMAIN conv, params |-> << >>]
    ELSE IF q_ok THEN [exc |-> "", success |-> TRUE, message |-> "Row updated successfully!", table |-> ApplyUpdate(tbl, [key \in DOMAIN conv |-> conv[key].v], id_column, id_value), set_keys |-> DOMAIN conv, params |-> [key \in DOMAIN conv |-> conv[key].v]]
    ELSE [exc |-> "", success |-> FALSE, message |-> "An error occurred while updating data", table |-> tbl, set_keys |-> DOMAIN conv, params |-> [key \in DOMAIN conv |-> conv[key].v]]

\* Lines 113-165.  exc # "" when an exception leaves the function; set_keys
\* are the columns of the SET clause, params the values bound to them; q_ok:
\* the statement runs without error.
update_row(tbl, new_data, id_column, id_value, sch, q_ok) ==
    IF ~\E i \in 1..Len(sch) : sch[i].name = id_column THEN [exc |-> "", success |-> FALSE, message |-> "Unique ID column not found.", table |-> tbl, set_keys |-> {}, params |-> << >>]
    ELSE RunUpdate(tbl, [key \in DOMAIN new_data |-> converted_value(field_type_of(sch, key), new_data[key])], id_column, id_value, q_ok)

\* -------------------------------------------------------------------- state
VARIABLES
    table,          \* the rows of TABLE_REF
    filters,        \* the filter_<col> text inputs (lines 202-205)
    data_df,        \* st.session_state.data_df
    update_info,    \* st.session_state["update_info"]
    status_message, \* st.session_state.status_message
    edited_rows,    \* st.session_state["data_editor"]["edited_rows"], in key order
    editor_data,    \* the frame the data_editor widget was last created with
    rerun,          \* st.rerun() was called and the next run has not started
    banner,         \* what lines 172-178 displayed in the last run
    searched,       \* the last run called get_data (line 233)
    next_id,        \* what get_next_id returned in the last run (line 218)
    insert_call,    \* the record the last run passed to insert_row (line 223)
    update_call,    \* the arguments the last run passed to update_row (line 293)
    edit_event,     \* the row index of the cell edit that started the last run
    pc,             \* per session: where its add-row submission is
    alloc,          \* per session: the next_id of its add-row submission
    raw,            \* the raw string given to update_row
    ftype,          \* the declared type of the column it is given for
    result          \* what update_row did with it

uiVars == <<filters, data_df, update_info, status_message, edited_rows, editor_data, rerun, banner, searched, next_id, insert_call, update_call, edit_event>>

addVars == <<pc, alloc>>

coerceVars == <<raw, ftype, result>>

vars == <<table, uiVars, addVars, coerceVars>>

\* What the user can type into a text input of the page.
InputStrs == { <<>>, <<"A">>, <<"B">> }

\* What the user can type into a filter.
FilterStrs == { <<>>, <<"a">>, <<"b">> }

\* What the user can leave in an edited cell of the grid: a text or nothing.
GridVals == { StrV(<<"A">>), NullV }

Sessions == 1..NumSessions

\* A stored row.
Row(id, name) == [c \in {"id", "name"} |-> IF c = "id" THEN IntV(id) ELSE StrV(name)]

\* The tables a run starts from: an empty one, and one whose largest id is not
\* its last row's.
InitTables == { <<>>, <<Row(41, <<"A">>), Row(7, <<"B">>)>> }

\* ------------------------------------------------------------ the page script
\* Lines 255-274: the pending edit built from the first key of edited_rows.
PendingEdit(df, er) ==
    LET edited_row_index == Head(er).row
        original_row == df[edited_row_index + 1]
        edited_data_for_row == Head(er).cells
        selected_row_for_form == [c \in DOMAIN original_row \cup DOMAIN edited_data_for_row |-> IF c \in DOMAIN edited_data_for_row THEN edited_data_for_row[c] ELSE original_row[c]]
    IN  [unique_id_value |-> original_row[unique_id_column], form_data |-> selected_row_for_form]

\* Lines 293-304: update_row returned r (or raised r.exc, which ends the run).
AfterUpdate(shown, info, updated_data, r) ==
    IF r.exc # "" THEN [shown EXCEPT !.update_call = Some([new_data |-> updated_data, unique_id_value |-> info[1].unique_id_value, set_keys |-> r.set_keys])]
    ELSE [shown EXCEPT !.update_call = Some([new_data |-> updated_data, unique_id_value |-> info[1].unique_id_value, set_keys |-> r.set_keys]),
                       !.table = r.table,
                       !.status_message = Some([success |-> r.success, message |-> r.message]),
                       !.update_info = IF r.success THEN None ELSE info,
                       !.data_df = IF r.success THEN None ELSE shown.data_df,
                       !.rerun = TRUE]

\* Lines 276-308: the update form, shown when a pending edit is in the session.
UpdateForm(shown, info, ev) ==
    IF info # None /\ ev.upd # None
    THEN AfterUpdate(shown, info, ev.upd[1].updated_data, update_row(shown.table, ev.upd[1].updated_data, unique_id_column, info[1].unique_id_value, schema, ev.upd[1].q_ok))
    ELSE shown

\* Lines 255-274 with er the editor's edited_rows in this run.
EditedRows(s, df, fetch, er, info, ev) == UpdateForm([s EXCEPT !.data_df = Some(df), !.searched = fetch, !.edited_rows = er, !.editor_data = Some(df), !.update_info = info], info, ev)

\* Lines 241-251.  The data_editor widget keeps its edits while it is created
\* with the same frame and starts empty otherwise.
DataEditor(s, df, fetch, er, ev) == EditedRows(s, df, fetch, er, IF er # <<>> THEN Some(PendingEdit(df, er)) ELSE s.update_info, ev)

\* Lines 235-312.  A run that ends without creating the data_editor drops the
\* widget's state.
ShowResults(s, df, fetch, ev) ==
    IF df # <<>> THEN DataEditor(s, df, fetch, IF s.editor_data = Some(df) THEN s.edited_rows ELSE <<>>, ev)
    ELSE [s EXCEPT !.data_df = None, !.searched = fetch, !.edited_rows = <<>>, !.editor_data = None]

\* ResultsSection whose no-filter branch forgets lines 317-318.
ResultsSection_KeepsPendingEdit(s, ev) ==
    IF \E col \in DOMAIN ev.filters : ev.filters[col] # <<>>
    THEN ShowResults(s, IF s.data_df = None THEN get_data(s.table, ev.filters, ev.q_ok) ELSE s.data_df[1], s.data_df = None, ev)
    ELSE [s EXCEPT !.data_df = None, !.edited_rows = <<>>, !.editor_data = None]

\* Lines 230-318.  s: the session after the sidebar; ev: the inputs of the run.
ResultsSection(s, ev) ==
    IF \E col \in DOMAIN ev.filters : ev.filters[col] # <<>>
    THEN ShowResults(s, IF s.data_df = None THEN get_data(s.table, ev.filters, ev.q_ok) ELSE s.data_df[1], s.data_df = None, ev)
    ELSE [s EXCEPT !.data_df = None, !.update_info = None, !.edited_rows = <<>>, !.editor_data = None]

\* Lines 223-228: insert_row returned r; st.rerun() ends the run before the
\* data_editor is created.
AfterInsert(s, nid, new_row_data, r) ==
    [s EXCEPT !.next_id = nid,
              !.insert_call = Some(new_row_data),
              !.table = r.table,
              !.status_message = Some([success |-> r.success, message |-> r.message]),
              !.data_df = IF r.success THEN None ELSE s.data_df,
              !.edited_rows = <<>>,
              !.editor_data = None,
              !.rerun = TRUE]

\* The add handler without line 220: the record goes out as the form gave it.
WithId_Forgotten(new_row_data, nid) == new_row_data

\* Lines 220-223: the id is added to the submitted record.
WithId(new_row_data, nid) == [c \in DOMAIN new_row_data \cup {unique_id_column} |-> IF c = unique_id_column THEN IntV(nid) ELSE new_row_data[c]]

\* Lines 216-228 with nid what get_next_id returned.
AddRowForm(s, ev, nid) ==
    IF nid # None THEN AfterInsert(s, nid, WithId(ev.add[1].new_row_data, nid[1]), insert_row(s.table, WithId(ev.add[1].new_row_data, nid[1]), ev.add[1].outcome))
    ELSE ResultsSection(s, ev)

\* Lines 180-318.
Page(s, ev) == IF ev.add # None THEN AddRowForm(s, ev, get_next_id(s.table, ev.add[1].q_ok)) ELSE ResultsSection(s, ev)

\* The script without the del of line 178: the message stays in the session.
Script_KeepsMessage(ev) ==
    Page([table |-> table, data_df |-> data_df, update_info |-> update_info, status_message |-> status_message,
          edited_rows |-> ev.edited_rows, editor_data |-> editor_data, rerun |-> FALSE,
          banner |-> status_message, searched |-> FALSE, next_id |-> None, insert_call |-> None, update_call |-> None], ev)

\* Lines 172-318: one run of the script.  The banner is shown and the message
\* deleted first (lines 172-178).
Script(ev) ==
    Page([table |-> table, data_df |-> data_df, update_info |-> update_info, status_message |-> None,
          edited_rows |-> ev.edited_rows, editor_data |-> editor_data, rerun |-> FALSE,
          banner |-> status_message, searched |-> FALSE, next_id |-> None, insert_call |-> None, update_call |-> None], ev)

\* The run's effect on the state: s is the session the script leaves.
Run(s, ev, edit) ==
    /\ table' = s.table
    /\ filters' = ev.filters
    /\ data_df' = s.data_df
    /\ update_info' = s.update_info
    /\ status_message' = s.status_message
    /\ edited_rows' = s.edited_rows
    /\ editor_data' = s.editor_data
    /\ rerun' = s.rerun
    /\ banner' = s.banner
    /\ searched' = s.searched
    /\ next_id' = s.next_id
    /\ insert_call' = s.insert_call
    /\ update_call' = s.update_call
    /\ edit_event' = edit
    /\ UNCHANGED <<addVars, coerceVars>>

\* One run of the script on the inputs ev.
Render(ev, edit) == Run(Script(ev), ev, edit)

\* The inputs of a run in which nothing is submitted.
NoSubmit(flt, er, q_ok) == [filters |-> flt, edited_rows |-> er, add |-> None, upd |-> None, q_ok |-> q_ok]

\* The editor's state after the user edits cell (i, col): its keys are row
\* indices in ascending order.
RECURSIVE AddEdit(_, _, _, _)
AddEdit(er, i, col, val) ==
    IF er = <<>> \/ Head(er).row > i THEN <<[row |-> i, cells |-> [c \in {col} |-> val]]>> \o er
    ELSE IF Head(er).row = i THEN <<[row |-> i, cells |-> [c \in DOMAIN Head(er).cells \cup {col} |-> IF c = col THEN val ELSE Head(er).cells[c]]]>> \o Tail(er)
    ELSE <<Head(er)>> \o AddEdit(Tail(er), i, col, val)

\* ------------------------------------------------------------------ actions
\* The user changes one filter input.
FilterChange ==
    /\ ~rerun
    /\ \E col \in DisplayCols, val \in FilterStrs, q_ok \in BOOLEAN :
        /\ filters[col] # val
        /\ Render(NoSubmit([filters EXCEPT ![col] = val], edited_rows, q_ok), None)

\* The user edits one cell of the grid.
GridEdit ==
    /\ ~rerun
    /\ data_df # None
    /\ \E i \in 0..(Len(data_df[1]) - 1), col \in DisplayCols, val \in GridVals :
        Render(NoSubmit(filters, AddEdit(edited_rows, i, col, val), TRUE), Some(i))

\* The user submits add_row_form.
AddSubmit ==
    /\ ~rerun
    /\ Len(table) < MaxRows
    /\ \E row \in [DisplayCols -> {StrV(x) : x \in InputStrs}], id_ok \in BOOLEAN, outcome \in {"ok", "errors", "exception"}, q_ok \in BOOLEAN :
        Render([filters |-> filters, edited_rows |-> edited_rows, add |-> Some([new_row_data |-> row, q_ok |-> id_ok, outcome |-> outcome]), upd |-> None, q_ok |-> q_ok], None)

\* The user submits update_row_form, which the last run displayed.
UpdateSubmit ==
    /\ ~rerun
    /\ data_df # None
    /\ update_info # None
    /\ \E data \in [DisplayCols -> {StrV(x) : x \in InputStrs}], u_ok \in BOOLEAN :
        Render([filters |-> filters, edited_rows |-> edited_rows, add |-> None, upd |-> Some([updated_data |-> data, q_ok |-> u_ok]), q_ok |-> TRUE], None)

\* The run that st.rerun() starts.
Rerun ==
    /\ rerun
    /\ \E q_ok \in BOOLEAN : Render(NoSubmit(filters, edited_rows, q_ok), None)

Idle == [s \in Sessions |-> "idle"]

NoAlloc == [s \in Sessions |-> None]

InitUi ==
    /\ filters = [col \in DisplayCols |-> <<>>]
    /\ data_df = None
    /\ update_info = None
    /\ status_message = None
    /\ edited_rows = <<>>
    /\ editor_data = None
    /\ rerun = FALSE
    /\ banner = None
    /\ searched = FALSE
    /\ next_id = None
    /\ insert_call = None
    /\ update_call = None
    /\ edit_event = None

Init ==
    /\ table \in InitTables
    /\ InitUi
    /\ pc = Idle
    /\ alloc = NoAlloc
    /\ raw = NullV
    /\ ftype = "name"
    /\ result = None

Next == FilterChange \/ GridEdit \/ AddSubmit \/ UpdateSubmit \/ Rerun

Spec == Init /\ [][Next]_vars

\* ------------------------------------------- add-row submissions, interleaved
\* The same handler (lines 216-228) run by several sessions against one
\* table.  get_next_id and insert_row are two separate requests to the
\* warehouse, so another session's requests can come between them.
\* pc[s]: "idle" (no submission in progress), "got_id" (line 219 passed, the
\* insert is still to come), "no_id" (get_next_id returned None; the handler
\* was skipped).

\* Lines 216-219 in session s.
AddGetNextId(s) ==
    /\ pc[s] # "got_id"
    /\ \E q_ok \in BOOLEAN :
        LET nid == get_next_id(table, q_ok)
        IN  /\ alloc' = [alloc EXCEPT ![s] = nid]
            /\ pc' = [pc EXCEPT ![s] = IF nid = None THEN "no_id" ELSE "got_id"]
    /\ UNCHANGED <<table, uiVars, coerceVars>>

\* Lines 220-228 in session s.
AddInsertRow(s) ==
    /\ pc[s] = "got_id"
    /\ Len(table) < MaxRows
    /\ \E name \in InputStrs, outcome \in {"ok", "errors", "exception"} :
        table' = insert_row(table, Row(alloc[s][1], name), outcome).table
    /\ pc' = [pc EXCEPT ![s] = "idle"]
    /\ UNCHANGED <<alloc, uiVars, coerceVars>>

InitIds ==
    /\ table \in InitTables
    /\ InitUi
    /\ pc = Idle
    /\ alloc = NoAlloc
    /\ raw = NullV
    /\ ftype = "name"
    /\ result = None

NextIds == \E s \in Sessions : AddGetNextId(s) \/ AddInsertRow(s)

SpecIds == InitIds /\ [][NextIds]_vars

\* --------------------------------------------------- update_row on raw values
\* update_row given one raw value for a column of each declared type, against
\* a one-row table.

\* A schema with a column of every type lines 138-151 tell apart; "d" stands
\* for the types of the last branch.
typed_schema == << [name |-> "id", field_type |-> "INT64"], [name |-> "s", field_type |-> "STRING"], [name |-> "i", field_type |-> "INT64"], [name |-> "f", field_type |-> "FLOAT64"], [name |-> "b", field_type |-> "BOOL"], [name |-> "d", field_type |-> "DATE"] >>

TypedKeys == {"s", "i", "f", "b", "d"}

TypedRow == [c \in {"id"} \cup TypedKeys |-> IF c = "id" THEN IntV(1) ELSE NullV]

Alphabet == {"3", "9", ".", " ", "-", "y", "1", "t"}

RECURSIVE StringsUpTo(_)
StringsUpTo(n) == IF n = 0 THEN { <<>> } ELSE StringsUpTo(n - 1) \cup { Append(x, c) : x \in StringsUpTo(n - 1), c \in Alphabet }

\* Raw strings longer than the generated ones.
LongStrings == { <<"y", "e", "s">>, <<"Y", "e", "s">>, <<"t", "r", "u", "e">>, <<"T", "R", "U", "E">>, <<"M", "x">>, <<"a", "b", "c">>,
                 <<"3", ".", "9">>, <<"-", "3", ".", "9">>, <<" ", "3", ".", "9", " ">>, <<"1", "e", "2">>, <<"3", "9", "e", "-", "1">>,
                 <<"i", "n", "f">>, <<"-", "I", "n", "f", "i", "n", "i", "t", "y">>, <<"n", "a", "n">>, <<"1", "e", "9", "9", "9">>, <<"1", "e", "-", "9", "9", "9">>,
                 <<" ", "y", "e", "s">>, <<"3", ".", "9", "x">>, <<"e", "3">>, <<"3", "e">> }

RawValues == {NullV} \cup {StrV(x) : x \in StringsUpTo(MaxRawLen) \cup LongStrings}

\* update_row(client, {ftype: raw}, "id", 1, schema).
UpdateRaw ==
    /\ result = None
    /\ \E q_ok \in BOOLEAN :
        LET r == update_row(table, [key \in {ftype} |-> raw], unique_id_column, IntV(1), typed_schema, q_ok)
        IN  /\ result' = Some(r)
            /\ table' = r.table
    /\ UNCHANGED <<raw, ftype, uiVars, addVars>>

InitCoerce ==
    /\ table = <<TypedRow>>
    /\ InitUi
    /\ pc = Idle
    /\ alloc = NoAlloc
    /\ raw \in RawValues
    /\ ftype \in TypedKeys
    /\ result = None

NextCoerce == UpdateRaw

SpecCoerce == InitCoerce /\ [][NextCoerce]_vars

\* ===================================================================== claims
\* line 231: any(filters.values())
AnyFilter(flt) == \E col \in DOMAIN flt : flt[col] # <<>>

\* C1: whenever the user changes a filter value to a different non-empty
\* filter set, the run that follows executes a new search and the result set
\* it caches is the one get_data gives for the new filter set (nothing is
\* cached when that is empty).
C1_FilterChangeSearches == [][(filters' # filters /\ AnyFilter(filters')) => (searched' /\ data_df' \in {None, Some(get_data(table', filters', TRUE))})]_vars

\* C3: in every run in which all filter values are empty the search is not
\* invoked and the session then holds neither data_df nor update_info.
C3_NoFilterNoSearch == ~AnyFilter(filters) => (~searched /\ data_df = None /\ update_info = None)

\* C3 witness: a run with all filters empty over a table that has rows ended
\* at the last line of the script, after the banner of an earlier write.
C3_Witness == ~AnyFilter(filters) /\ ~rerun /\ banner # None /\ table # <<>> /\ ~searched /\ data_df = None

\* C4: every stored status message is displayed by the next run and deleted in
\* it; a run displays only the message the session held when it started; and a
\* message is stored only by a run that called insert_row or update_row and
\* ended in st.rerun().
C4_OneShotMessage ==
    [][ /\ (status_message # None => (rerun /\ banner' = status_message /\ status_message' = None))
        /\ (banner' # None => banner' = status_message)
        /\ (status_message' # None => (rerun' /\ (insert_call' # None \/ update_call' # None))) ]_vars

\* C4 witness: a run displayed the message of a write and the session holds
\* none any more.
C4_Witness == banner # None /\ status_message = None /\ ~rerun

\* C10: at the end of every run that reaches the end of the script, a pending
\* edit is in the session only if a cached result set is there too and holds a
\* row with the pending edit's id.
C10_PendingEditHasRow == (~rerun /\ update_info # None) => (data_df # None /\ \E i \in 1..Len(data_df[1]) : data_df[1][i][unique_id_column] = update_info[1].unique_id_value)

\* C2: a run that submits the update form ends in st.rerun() with a status
\* message; when update_row succeeded the session holds neither data_df nor
\* update_info, when it failed both are as they were before the run.  The run
\* that follows a successful update with a non-empty filter searches again,
\* caches the result of get_data on the updated table, and shows no pending
\* edit (no grid edit was made since the update).
C2_UpdateDecidesState ==
    [][ /\ (update_call' # None =>
                /\ rerun' /\ status_message' # None
                /\ (status_message'[1].success => (data_df' = None /\ update_info' = None))
                /\ (~status_message'[1].success => (data_df' = data_df /\ update_info' = update_info /\ table' = table)))
        /\ ((rerun /\ update_call # None /\ status_message[1].success /\ AnyFilter(filters')) =>
                /\ searched'
                /\ data_df' \in {None, Some(get_data(table, filters', TRUE))}
                /\ update_info' = None) ]_vars

\* What holds of the update submission: as C2, except that the run after a
\* successful update may build a pending edit again, from the edits the grid
\* still holds over the freshly fetched rows.
UpdateDecidesSession ==
    [][ /\ (update_call' # None =>
                /\ rerun' /\ status_message' # None
                /\ (status_message'[1].success => (data_df' = None /\ update_info' = None))
                /\ (~status_message'[1].success => (data_df' = data_df /\ update_info' = update_info /\ table' = table)))
        /\ ((rerun /\ update_call # None /\ status_message[1].success /\ AnyFilter(filters')) =>
                /\ searched'
                /\ data_df' \in {None, Some(get_data(table, filters', TRUE))}
                /\ (update_info' # None => (data_df' # None /\ edited_rows' # <<>> /\ update_info' = Some(PendingEdit(data_df'[1], edited_rows'))))) ]_vars

\* C6: after each grid-edit event the pending edit is the one of the row the
\* event edited: its unique_id_value is that row's id in the cached result set
\* and its form_data the row's values overridden by the row's edited cells, so
\* that a later edit of another row replaces the earlier pending edit.
C6_EditedRowIsPending ==
    edit_event # None =>
        /\ update_info # None
        /\ data_df # None
        /\ update_info[1].unique_id_value = data_df[1][edit_event[1] + 1][unique_id_column]
        /\ \E j \in 1..Len(edited_rows) :
            /\ edited_rows[j].row = edit_event[1]
            /\ update_info[1].form_data = [c \in DOMAIN data_df[1][edit_event[1] + 1] |-> IF c \in DOMAIN edited_rows[j].cells THEN edited_rows[j].cells[c] ELSE data_df[1][edit_event[1] + 1][c]]

\* C7: the id is not among the columns presented for filtering, adding or
\* editing; a record passed to update_row has no id key, and none is in its
\* SET clause; a record passed to insert_row has the id key, holding what
\* get_next_id returned in that run.
C7_IdOnlyOnInsert ==
    /\ unique_id_column \notin Range(display_column_names)
    /\ unique_id_column \notin DOMAIN filters
    /\ \A j \in 1..Len(edited_rows) : unique_id_column \notin DOMAIN edited_rows[j].cells
    /\ (update_call # None => (unique_id_column \notin DOMAIN update_call[1].new_data /\ unique_id_column \notin update_call[1].set_keys /\ DOMAIN update_call[1].new_data = Range(display_column_names)))
    /\ (insert_call # None => (next_id # None /\ unique_id_column \in DOMAIN insert_call[1] /\ insert_call[1][unique_id_column] = IntV(next_id[1]) /\ DOMAIN insert_call[1] = Range(all_column_names)))

\* C7 witness: the last run passed a record to update_row, for a row that an
\* earlier run inserted.
C7_Witness == update_call # None /\ \E i \in 1..Len(table) : table[i][unique_id_column] = update_call[1].unique_id_value /\ table[i][unique_id_column].n \notin {41, 7}

\* ---------------------------------------------------------------- SpecIds
Ids(tbl) == [i \in 1..Len(tbl) |-> tbl[i][unique_id_column].n]

UniqueIds(tbl) == \A i, j \in 1..Len(tbl) : i # j => Ids(tbl)[i] # Ids(tbl)[j]

PositiveIds(tbl) == \A i \in 1..Len(tbl) : Ids(tbl)[i] >= 1

\* Session s stores a row in this step.
Inserts(s) == pc[s] = "got_id" /\ pc'[s] = "idle" /\ table' # table

\* C5: after any interleaving of add-row submissions by any number of
\* sessions, every stored row has a positive id and no two rows share an id.
C5_IdsUniqueAlways == PositiveIds(table) /\ UniqueIds(table)

\* C5, amended: every stored row has a positive id, and a submission whose id
\* is still what get_next_id returns when its insert_row runs (no other
\* insert came between its get_next_id and its insert_row) keeps the ids
\* distinct and stores an id larger than every id stored before.
C5_IdsUniqueWhenNotInterleaved ==
    /\ []PositiveIds(table)
    /\ [][ \A s \in Sessions : (Inserts(s) /\ UniqueIds(table) /\ alloc[s] = get_next_id(table, TRUE)) =>
                (UniqueIds(table') /\ \A i \in 1..Len(table) : Ids(table)[i] < Ids(table')[Len(table')]) ]_vars

\* C5 witness: rows were added one submission after the other to the table
\* that started with ids 41 and 7, and a submission is in flight.
C5_Witness == Len(table) >= 3 /\ UniqueIds(table) /\ Ids(table)[Len(table)] = 42 /\ \E s \in Sessions : pc[s] = "got_id" /\ alloc[s] = Some(43)

\* The largest id of a table that has rows.
LargestId(tbl) == CHOOSE m \in Range(Ids(tbl)) : \A x \in Range(Ids(tbl)) : x <= m

\* C8: get_next_id returns max(id)+1, 1 on an empty table, and leaves the
\* table as it is; when its query fails it returns no id, and the submission
\* stores nothing: a row is stored only by a session holding an id, with that
\* id.
C8_NextId ==
    [][ \A s \in Sessions :
        /\ (pc[s] # "got_id" /\ pc'[s] = "got_id" => (table' = table /\ alloc'[s] = Some(IF table = <<>> THEN 1 ELSE LargestId(table) + 1)))
        /\ (pc[s] = "idle" /\ pc'[s] = "no_id" => (table' = table /\ alloc'[s] = None))
        /\ (pc[s] = "no_id" /\ pc'[s] = "no_id" => (table' = table \/ \E t \in Sessions \ {s} : Inserts(t)))
        /\ (table' # table => \E t \in Sessions : Inserts(t) /\ alloc[t] # None /\ table' = Append(table, table'[Len(table')]) /\ Ids(table')[Len(table')] = alloc[t][1]) ]_vars

\* C8 witness: two sessions called get_next_id on the same table with no
\* insert between them and hold the same id, max(id)+1.
C8_Witness == table # <<>> /\ \E s, t \in Sessions : s # t /\ pc[s] = "got_id" /\ pc[t] = "got_id" /\ alloc[s] = alloc[t] /\ alloc[s] = Some(LargestId(table) + 1)

\* --------------------------------------------------------------- SpecCoerce
\* The value update_row bound for the key, once it returned.
Bound == result[1].params[ftype]

\* The declared type of the key.
Declared == field_type_of(typed_schema, ftype)

Blank == raw = NullV \/ \A i \in 1..Len(raw.s) : raw.s[i] = " "

\* C9: update_row never raises because of the value and always returns an
\* (ok, message) pair; it binds null for an empty, blank or absent value, an
\* integer or null for INT64 ("3.9" gives 3), a float or null for FLOAT64,
\* true or false by the five strings for BOOL ("yes" true, "Mx" false), and
\* the string itself for any other type.
C9_CoercionNeverRaises ==
    result # None =>
        /\ result[1].exc = ""
        /\ result[1].message # ""
        /\ (Blank => Bound = NullV)
        /\ (~Blank /\ Declared = "INT64" => Bound.k \in {"int", "null"})
        /\ (Declared = "INT64" /\ raw = StrV(<<"3", ".", "9">>) => Bound = IntV(3))
        /\ (~Blank /\ Declared = "FLOAT64" => Bound.k \in {"float", "null"})
        /\ (~Blank /\ Declared = "BOOL" => Bound = BoolV(lower(raw.s) \in TrueStrings))
        /\ (Declared = "BOOL" /\ raw = StrV(<<"y", "e", "s">>) => Bound = BoolV(TRUE))
        /\ (Declared = "BOOL" /\ raw = StrV(<<"M", "x">>) => Bound = BoolV(FALSE))
        /\ (~Blank /\ Declared \notin {"INT64", "FLOAT64", "BOOL"} => Bound = raw)

\* What holds of the coercion: the table of C9 for every value that does not
\* parse to an infinity in an INT64 column.
CoercionTable ==
    (result # None /\ result[1].exc = "") =>
        /\ result[1].message # ""
        /\ (Blank => Bound = NullV)
        /\ (~Blank /\ Declared = "INT64" => Bound.k \in {"int", "null"})
        /\ (Declared = "INT64" /\ raw = StrV(<<"3", ".", "9">>) => Bound = IntV(3))
        /\ (Declared = "INT64" /\ raw = StrV(<<"-", "3", ".", "9">>) => Bound = IntV(-3))
        /\ (Declared = "INT64" /\ raw = StrV(<<"1", "e", "2">>) => Bound = IntV(100))
        /\ (Declared = "INT64" /\ raw \in {StrV(<<"n", "a", "n">>), StrV(<<"3", ".", "9", "x">>), StrV(<<".">>)} => Bound = NullV)
        /\ (~Blank /\ Declared = "FLOAT64" => Bound.k \in {"float", "null"})
        /\ (Declared = "FLOAT64" /\ raw = StrV(<<"3", "9", "e", "-", "1">>) => Bound = FloatV("fin", FALSE, 39, 10))
        /\ (~Blank /\ Declared = "BOOL" => Bound = BoolV(lower(raw.s) \in TrueStrings))
        /\ (~Blank /\ Declared \notin {"INT64", "FLOAT64", "BOOL"} => Bound = raw)

====
